---- MODULE Spec2Model ----
(***************************************************************************)
(* The authentication / authorization core of the backend:                 *)
(*   - protect            (src/middleware/protect.ts)                      *)
(*   - RoleBaseAccess     (src/middleware/roleBasesAccess/                 *)
(*                         roleAccessManager.ts)                           *)
(*   - AuthWebController  (components/web/auth/auth-web.controller.ts)     *)
(* over the users / roles / permissions / user_roles / role_permissions    *)
(* tables.                                                                 *)
(***************************************************************************)
EXTENDS Integers, Sequences, FiniteSets, TLC

(***************************************************************************)
(* Bounds of the model.                                                    *)
(***************************************************************************)
\* number of out-of-band row changes (seed scripts, SQL) in one behaviour
MaxEdits == 2
\* the clock runs over 0 .. MaxTime
MaxTime == 2
\* number of getRoleModuleData invocations (startup refresh + timer ticks)
MaxRefresh == 2
\* number of federated logins in one behaviour
MaxLogins == 3
\* number of loginUser and refreshToken executions in one behaviour
MaxSessions == 2
\* number of RoleBaseAccess.init calls in one behaviour
MaxInits == 2

(***************************************************************************)
(* Domains.                                                                *)
(***************************************************************************)
UserIds == {"u1", "u2"}
\* a token may carry a userId that has no users row
TokenUserIds == {"u1", "u9"}
RoleIds == {1, 2}
PermIds == {1, 2, 3, 4}
\* the value of a NULL permissions.code column
NullCode == "<null>"
\* the codes a caller can ask about (ModuleEnumType)
ModuleEnum == {"viewdashboard", "manageusers", "viewreports"}

VARIABLES
    users,            \* table users: set of rows
    roles,            \* table roles: RoleIds -> row
    userRoles,        \* table user_roles: set of rows, key (userId, roleId)
    rolePermissions,  \* table role_permissions: set of rows, key (permissionId, roleId)
    edits,            \* number of out-of-band row changes so far
    now,              \* the clock
    req,              \* the request going through protect and the permission gate
    roleModule,       \* RoleBaseAccess.roleModule: roleId -> set of codes
    refresh,          \* the getRoleModuleData invocations
    started,          \* RoleBaseAccess.init has been called
    intervalId,       \* RoleBaseAccess.intervalId: the timer of the last init
    timers,           \* the intervals setInterval has scheduled and none cleared
    login,            \* the handleAzureLogin invocations
    nextUserId,       \* the next id the users table generates
    session,          \* the loginUser and refreshToken executions
    JWT_REFRESH_SECRET  \* env.JWT_REFRESH_SECRET, read once at startup

storageVars == <<users, roles, userRoles, rolePermissions>>
timerVars == <<intervalId, timers>>
cacheVars == <<roleModule, refresh, started, intervalId, timers>>
loginVars == <<login, nextUserId>>
sessionVars == <<session, JWT_REFRESH_SECRET>>
vars == <<users, roles, userRoles, rolePermissions, edits, now, req,
          roleModule, refresh, started, intervalId, timers, login, nextUserId,
          session,
          JWT_REFRESH_SECRET>>
\* what an out-of-band row change leaves alone
notStorage == <<now, req, roleModule, refresh, started, intervalId, timers, login,
                nextUserId,
                session, JWT_REFRESH_SECRET>>

(***************************************************************************)
(* Storage.                                                                *)
(***************************************************************************)
\* table permissions: id -> code; code is a nullable unique varchar, and the
\* row with a NULL code is the row RoleModuleAccessSchema rejects
permissions ==
    [p \in PermIds |->
        CASE p = 1 -> "viewdashboard"
          [] p = 2 -> "manageusers"
          [] p = 3 -> "viewreports"
          [] OTHER -> NullCode]

\* roles.name, an enum value
RoleName(r) == IF r = 1 THEN "ADMIN" ELSE "USER"

\* the value of a NULL users.passwordHash column
NullHash == <<>>

\* Hash.hash: the stored form of a password
Hash(plainText) == <<"bcrypt", plainText>>

UserRow(id, name, email, passwordHash, active) ==
    [id |-> id, name |-> name, email |-> email, passwordHash |-> passwordHash,
     isActive |-> active]

UserRoleRow(u, r, d) == [userId |-> u, roleId |-> r, isDefault |-> d]

RolePermissionRow(r, p) == [roleId |-> r, permissionId |-> p]

\* u1 as the seed script writes it; u2 as a federated login writes a user,
\* without a password hash
SeedUsers ==
    {UserRow("u1", "ann", "a@x", Hash("pw1"), TRUE),
     UserRow("u2", "bob", "b@x", NullHash, TRUE)}

SeedRoles == [r \in RoleIds |-> [name |-> RoleName(r), isActive |-> TRUE]]

SeedUserRoles ==
    {UserRoleRow("u1", 1, TRUE), UserRoleRow("u1", 2, FALSE),
     UserRoleRow("u2", 2, TRUE)}

SeedRolePermissions ==
    {RolePermissionRow(1, 1), RolePermissionRow(1, 2),
     RolePermissionRow(2, 2), RolePermissionRow(2, 3)}

StorageInit ==
    /\ users = SeedUsers
    /\ roles = SeedRoles
    /\ userRoles = SeedUserRoles
    /\ rolePermissions = SeedRolePermissions

UserIdsStored == {u.id : u \in users}

\* INSERT INTO user_roles: the primary key (userId, roleId) rejects a second row
InsertUserRole(u, r, d) ==
    /\ edits < MaxEdits
    /\ u \in UserIdsStored
    /\ ~ \E ur \in userRoles : ur.userId = u /\ ur.roleId = r
    /\ userRoles' = userRoles \cup {UserRoleRow(u, r, d)}
    /\ edits' = edits + 1
    /\ UNCHANGED <<users, roles, rolePermissions>>
    /\ UNCHANGED notStorage

\* UPDATE user_roles SET isDefault = d WHERE userId = u AND roleId = r
UpdateUserRoleDefault(u, r, d) ==
    /\ edits < MaxEdits
    /\ UserRoleRow(u, r, ~d) \in userRoles
    /\ userRoles' = (userRoles \ {UserRoleRow(u, r, ~d)}) \cup {UserRoleRow(u, r, d)}
    /\ edits' = edits + 1
    /\ UNCHANGED <<users, roles, rolePermissions>>
    /\ UNCHANGED notStorage

\* DELETE FROM user_roles
DeleteUserRole(u, r) ==
    /\ edits < MaxEdits
    /\ \E ur \in userRoles : ur.userId = u /\ ur.roleId = r
    /\ userRoles' = {ur \in userRoles : ~(ur.userId = u /\ ur.roleId = r)}
    /\ edits' = edits + 1
    /\ UNCHANGED <<users, roles, rolePermissions>>
    /\ UNCHANGED notStorage

\* INSERT INTO role_permissions
InsertRolePermission(r, p) ==
    /\ edits < MaxEdits
    /\ RolePermissionRow(r, p) \notin rolePermissions
    /\ rolePermissions' = rolePermissions \cup {RolePermissionRow(r, p)}
    /\ edits' = edits + 1
    /\ UNCHANGED <<users, roles, userRoles>>
    /\ UNCHANGED notStorage

\* DELETE FROM role_permissions
DeleteRolePermission(r, p) ==
    /\ edits < MaxEdits
    /\ RolePermissionRow(r, p) \in rolePermissions
    /\ rolePermissions' = rolePermissions \ {RolePermissionRow(r, p)}
    /\ edits' = edits + 1
    /\ UNCHANGED <<users, roles, userRoles>>
    /\ UNCHANGED notStorage

\* the clock advances
Tick ==
    /\ now < MaxTime
    /\ now' = now + 1
    /\ UNCHANGED <<storageVars, edits, req, cacheVars, loginVars, sessionVars>>

(***************************************************************************)
(* Query results are sequences of rows.  The queries carry no ORDER BY;    *)
(* the model lists rows by ascending key.                                  *)
(***************************************************************************)
RECURSIVE SortedSeq(_)
SortedSeq(S) ==
    IF S = {} THEN <<>>
    ELSE LET m == CHOOSE x \in S : \A y \in S : x <= y
         IN  <<m>> \o SortedSeq(S \ {m})

RowBefore(a, b) ==
    \/ a.roleId < b.roleId
    \/ a.roleId = b.roleId /\ a.permissionId <= b.permissionId

RECURSIVE RowSeq(_)
RowSeq(S) ==
    IF S = {} THEN <<>>
    ELSE LET m == CHOOSE x \in S : \A y \in S : RowBefore(x, y)
         IN  <<m>> \o RowSeq(S \ {m})

Range(s) == {s[i] : i \in 1..Len(s)}

(***************************************************************************)
(* Tokens.  A signed token is the record of its signing secret, the claim  *)
(* the core reads (userId) and its expiry.                                 *)
(***************************************************************************)
\* env.JWT_SECRET
JWT_SECRET == "s1"
\* the secrets a presented token may have been signed with
Secrets == {"s1", "s2"}

Token(k, u, e) == [secret |-> k, userId |-> u, exp |-> e]

\* no value: an absent cookie or header, or the empty string
NoToken == Token("", "", 0)

TokenPool == {Token(k, u, 1) : k \in Secrets, u \in TokenUserIds}

\* safeJwtVerify with the expiry not checked
safeJwtVerify_IgnoreExpiry(token) ==
    IF token.secret = JWT_SECRET
    THEN [success |-> TRUE, data |-> token.userId]
    ELSE [success |-> FALSE, data |-> ""]

\* jwt.verify(token, env.JWT_SECRET) inside try / catch
safeJwtVerify(token) ==
    IF token.secret = JWT_SECRET /\ now < token.exp
    THEN [success |-> TRUE, data |-> token.userId]
    ELSE [success |-> FALSE, data |-> ""]

(***************************************************************************)
(* protect                                                                 *)
(***************************************************************************)
UNAUTHORIZED == 401
FORBIDDEN == 403

NoHeader == [scheme |-> "", token |-> NoToken]
Headers ==
    {NoHeader}
      \cup {[scheme |-> "Bearer", token |-> t] : t \in TokenPool \cup {NoToken}}
      \cup {[scheme |-> "Basic", token |-> Token(JWT_SECRET, "u1", 1)]}

NoUser == [id |-> "", email |-> "", roleId |-> 0, roleName |-> ""]
NoDetails ==
    [attached |-> FALSE, id |-> "", email |-> "", roleId |-> 0, roleName |-> "",
     permissions |-> <<>>]
NoError == [status |-> 0, message |-> ""]
AppError(message, status) == [status |-> status, message |-> message]

IdleRequest ==
    [pc |-> "idle", cookie |-> NoToken, authorization |-> NoHeader,
     decoded |-> "", user |-> NoUser, roleIds |-> <<>>,
     user_details |-> NoDetails, error |-> NoError, status |-> 0,
     nextCalled |-> FALSE, handlerRan |-> FALSE, keyword |-> ""]

\* a request reaches the router with its cookie and Authorization header
Arrive(cookie, authorization) ==
    /\ req.pc = "idle"
    /\ req' = [IdleRequest EXCEPT !.pc = "protect", !.cookie = cookie,
                                  !.authorization = authorization]
    /\ UNCHANGED <<storageVars, edits, now, cacheVars, loginVars, sessionVars>>

\* ExtractToken taking the Bearer header first and the cookie otherwise
ExtractToken_HeaderFirst(r) ==
    IF r.authorization.scheme = "Bearer" /\ r.authorization.token # NoToken
    THEN r.authorization.token
    ELSE r.cookie

\* protect.ts 32-36: the cookie, else the Bearer header
ExtractToken(r) ==
    IF r.cookie # NoToken THEN r.cookie
    ELSE IF r.authorization.scheme = "Bearer" THEN r.authorization.token
    ELSE NoToken

\* protect.ts 31-54: up to the first query
ProtectVerify ==
    /\ req.pc = "protect"
    /\ LET token == ExtractToken(req)
           result == safeJwtVerify(token)
       IN  req' =
             IF token = NoToken
             THEN [req EXCEPT !.pc = "failed",
                     !.error = AppError("Authentication token missing", UNAUTHORIZED)]
             ELSE IF ~ result.success
             THEN [req EXCEPT !.pc = "failed",
                     !.error = AppError("Authentication token missing", UNAUTHORIZED)]
             ELSE [req EXCEPT !.pc = "defaultRole", !.decoded = result.data]
    /\ UNCHANGED <<storageVars, edits, now, cacheVars, loginVars, sessionVars>>

\* DefaultRoleRows without the isDefault condition
DefaultRoleRows_AnyRole(userId) ==
    {[id |-> u.id, email |-> u.email, roleId |-> ur.roleId,
      roleName |-> roles[ur.roleId].name] :
        <<u, ur>> \in {x \in users \X userRoles :
                          /\ x[1].id = userId
                          /\ x[2].userId = x[1].id
                          /\ x[2].roleId \in DOMAIN roles}}

\* protect.ts 57-70: users JOIN user_roles JOIN roles WHERE users.id = userId
\* AND user_roles.isDefault
DefaultRoleRows(userId) ==
    {[id |-> u.id, email |-> u.email, roleId |-> ur.roleId,
      roleName |-> roles[ur.roleId].name] :
        <<u, ur>> \in {x \in users \X userRoles :
                          /\ x[1].id = userId
                          /\ x[2].userId = x[1].id
                          /\ x[2].roleId \in DOMAIN roles
                          /\ x[2].isDefault}}

\* ProtectDefaultRole answering the missing default role as loginUser does,
\* with the internal error
ProtectDefaultRole_InternalError ==
    /\ req.pc = "defaultRole"
    /\ LET rows == DefaultRoleRows(req.decoded)
       IN  \/ /\ rows = {}
              /\ req' = [req EXCEPT !.pc = "failed",
                           !.error = AppError("User has no default role assigned", 500)]
           \/ \E user \in rows :
                req' = [req EXCEPT !.pc = "allRoles", !.user = user]
    /\ UNCHANGED <<storageVars, edits, now, cacheVars, loginVars, sessionVars>>

\* protect.ts 57-77: LIMIT 1 without ORDER BY hands back any one matching row
ProtectDefaultRole ==
    /\ req.pc = "defaultRole"
    /\ LET rows == DefaultRoleRows(req.decoded)
       IN  \/ /\ rows = {}
              /\ req' = [req EXCEPT !.pc = "failed",
                           !.error = AppError("Invalid session, please login again",
                                              UNAUTHORIZED)]
           \/ \E user \in rows :
                req' = [req EXCEPT !.pc = "allRoles", !.user = user]
    /\ UNCHANGED <<storageVars, edits, now, cacheVars, loginVars, sessionVars>>

\* AllUserRoleIds reading the default rows only
AllUserRoleIds_DefaultOnly(userId) ==
    SortedSeq({ur.roleId : ur \in {x \in userRoles : x.userId = userId /\ x.isDefault}})

\* protect.ts 80-86: every user_roles row of the user
AllUserRoleIds(userId) ==
    SortedSeq({ur.roleId : ur \in {x \in userRoles : x.userId = userId}})

\* protect.ts 89-100: role_permissions JOIN permissions WHERE roleId IN roleIds
AllUserPermissions(roleIds) ==
    LET rows == RowSeq({rp \in rolePermissions : rp.roleId \in Range(roleIds)})
    IN  [i \in 1..Len(rows) |-> permissions[rows[i].permissionId]]

\* protect.ts 103-105: Array.from(new Set(codes)) keeps first occurrences
RECURSIVE UniquePerms(_)
UniquePerms(codes) ==
    IF codes = <<>> THEN <<>>
    ELSE LET front == UniquePerms(SubSeq(codes, 1, Len(codes) - 1))
             last == codes[Len(codes)]
         IN  IF last \in Range(front) THEN front ELSE Append(front, last)

\* protect.ts 107-110
UserDetails(user, perms) ==
    [attached |-> TRUE, id |-> user.id, email |-> user.email,
     roleId |-> user.roleId, roleName |-> user.roleName, permissions |-> perms]

\* protect.ts 80-100: the role ids arrive; with none, no further query is made
ProtectAllRoles ==
    /\ req.pc = "allRoles"
    /\ LET roleIds == AllUserRoleIds(req.decoded)
       IN  req' =
             IF Len(roleIds) > 0
             THEN [req EXCEPT !.pc = "permissions", !.roleIds = roleIds]
             ELSE [req EXCEPT !.pc = "next", !.roleIds = roleIds,
                     !.user_details = UserDetails(req.user, UniquePerms(<<>>)),
                     !.nextCalled = TRUE]
    /\ UNCHANGED <<storageVars, edits, now, cacheVars, loginVars, sessionVars>>

\* ProtectPermissions attaching the role id the token carries
ProtectPermissions_RoleFromToken ==
    /\ req.pc = "permissions"
    /\ LET allUserPermissions == AllUserPermissions(req.roleIds)
           user == [req.user EXCEPT !.roleId = ExtractToken(req).roleId]
       IN  req' = [req EXCEPT !.pc = "next",
                     !.user_details = UserDetails(user, UniquePerms(allUserPermissions)),
                     !.nextCalled = TRUE]
    /\ UNCHANGED <<storageVars, edits, now, cacheVars, loginVars, sessionVars>>

\* protect.ts 89-112: the permission rows arrive, user_details is attached
ProtectPermissions ==
    /\ req.pc = "permissions"
    /\ LET allUserPermissions == AllUserPermissions(req.roleIds)
       IN  req' = [req EXCEPT !.pc = "next",
                     !.user_details = UserDetails(req.user, UniquePerms(allUserPermissions)),
                     !.nextCalled = TRUE]
    /\ UNCHANGED <<storageVars, edits, now, cacheVars, loginVars, sessionVars>>

(***************************************************************************)
(* RoleBaseAccess.middleware(keyword), mounted after protect               *)
(***************************************************************************)
\* HasPermission with the ADMIN role passing every gate
HasPermission_AdminPasses(details, keyword) ==
    \/ details.roleName = "ADMIN"
    \/ \E i \in 1..Len(details.permissions) : details.permissions[i] = keyword

\* roleAccessManager.ts 90-91: permissions?.includes(keyword)
HasPermission(details, keyword) ==
    \E i \in 1..Len(details.permissions) : details.permissions[i] = keyword

\* roleAccessManager.ts 86-100
Middleware(keyword) ==
    /\ req.pc = "next"
    /\ req' =
         IF ~ HasPermission(req.user_details, keyword)
         THEN [req EXCEPT !.pc = "responded", !.status = FORBIDDEN, !.keyword = keyword]
         ELSE [req EXCEPT !.pc = "handler", !.handlerRan = TRUE, !.keyword = keyword]
    /\ UNCHANGED <<storageVars, edits, now, cacheVars, loginVars, sessionVars>>

\* a route mounted behind protect alone: the controller runs
RouteHandler ==
    /\ req.pc = "next"
    /\ req' = [req EXCEPT !.pc = "handler", !.handlerRan = TRUE]
    /\ UNCHANGED <<storageVars, edits, now, cacheVars, loginVars, sessionVars>>

\* the response is sent (the error handler answers a thrown AppError with its
\* status code) and the next request gets a fresh request object
Respond ==
    /\ req.pc \in {"failed", "responded", "handler"}
    /\ req' = IdleRequest
    /\ UNCHANGED <<storageVars, edits, now, cacheVars, loginVars, sessionVars>>

(***************************************************************************)
(* RoleBaseAccess: the permission cache                                    *)
(***************************************************************************)
\* new Map()
EmptyMap == <<>>

\* roleAccessManager.ts 27-41: roles JOIN role_permissions JOIN permissions
RoleModuleRows ==
    LET rows == RowSeq({rp \in rolePermissions : rp.roleId \in DOMAIN roles})
    IN  [i \in 1..Len(rows) |->
            [roleId |-> rows[i].roleId, roleName |-> roles[rows[i].roleId].name,
             permission |-> permissions[rows[i].permissionId]]]

\* roleAccessManager.ts 9-15: RoleModuleAccessSchema, one row
RowValid(row) ==
    /\ row.roleId >= 0
    /\ row.roleName # ""
    /\ row.permission \notin {NullCode, ""}

\* RoleModuleAccessSchema.safeParse(results).success
SafeParse(results) == \A i \in 1..Len(results) : RowValid(results[i])

NoRows == <<>>
\* the intervalId of a class on which init has not run
NoTimeout == 0

\* readAt: the number of row changes made when the query was answered
NewTask ==
    [pc |-> "query", results |-> NoRows, readAt |-> 0, moduleMap |-> EmptyMap,
     i |-> 0, error |-> "", threw |-> FALSE]

\* roleAccessManager.ts 21-26: getRoleModuleData is entered and issues its query
StartRefresh ==
    refresh' = Append(refresh, NewTask)

\* roleAccessManager.ts 67-74: init starts a refresh and schedules an
\* interval, whose Timeout replaces the one intervalId held
init ==
    /\ intervalId < MaxInits
    /\ Len(refresh) < MaxRefresh
    /\ StartRefresh
    /\ started' = TRUE
    /\ intervalId' = intervalId + 1
    /\ timers' = timers \cup {intervalId + 1}
    /\ UNCHANGED roleModule
    /\ UNCHANGED <<storageVars, edits, now, req, loginVars, sessionVars>>

\* App.ts 32: init is called once, at startup
InitCache ==
    /\ ~ started
    /\ init

\* roleAccessManager.ts 76-79: stopIt clears the interval intervalId holds
stopIt ==
    /\ timers' = IF intervalId # NoTimeout THEN timers \ {intervalId} ELSE timers
    /\ UNCHANGED <<roleModule, refresh, started, intervalId>>
    /\ UNCHANGED <<storageVars, edits, now, req, loginVars, sessionVars>>

\* roleAccessManager.ts 69-72: a scheduled interval fires
IntervalFires ==
    /\ started
    /\ timers # {}
    /\ Len(refresh) < MaxRefresh
    /\ StartRefresh
    /\ UNCHANGED <<roleModule, started, timerVars>>
    /\ UNCHANGED <<storageVars, edits, now, req, loginVars, sessionVars>>

\* roleAccessManager.ts 27-41: the query is answered from the rows stored now
RefreshQuery(t) ==
    /\ refresh[t].pc = "query"
    /\ refresh' = [refresh EXCEPT ![t].pc = "parse", ![t].results = RoleModuleRows,
                                  ![t].readAt = edits]
    /\ UNCHANGED <<roleModule, started, timerVars>>
    /\ UNCHANGED <<storageVars, edits, now, req, loginVars, sessionVars>>

\* RefreshQueryError with the catch block emptying the cache
RefreshQueryError_ClearsCache(t) ==
    /\ refresh[t].pc = "query"
    /\ refresh' = [refresh EXCEPT ![t].pc = "failed", ![t].error = "storage"]
    /\ roleModule' = EmptyMap
    /\ UNCHANGED <<started, timerVars>>
    /\ UNCHANGED <<storageVars, edits, now, req, loginVars, sessionVars>>

\* roleAccessManager.ts 62-64: the query rejects (storage outage); the catch logs
RefreshQueryError(t) ==
    /\ refresh[t].pc = "query"
    /\ refresh' = [refresh EXCEPT ![t].pc = "failed", ![t].error = "storage"]
    /\ UNCHANGED <<roleModule, started, timerVars>>
    /\ UNCHANGED <<storageVars, edits, now, req, loginVars, sessionVars>>

\* the map of the rows that validate
RECURSIVE ValidRowsMap(_)
ValidRowsMap(rows) ==
    IF rows = <<>> THEN EmptyMap
    ELSE LET map == ValidRowsMap(Tail(rows))
             row == Head(rows)
         IN  IF ~ RowValid(row) THEN map
             ELSE [r \in DOMAIN map \cup {row.roleId} |->
                     IF r = row.roleId
                     THEN (IF r \in DOMAIN map THEN map[r] ELSE {}) \cup {row.permission}
                     ELSE map[r]]

\* RefreshParse installing the rows that validate when others do not
RefreshParse_KeepsValidRows(t) ==
    /\ refresh[t].pc = "parse"
    /\ IF ~ SafeParse(refresh[t].results)
       THEN /\ refresh' = [refresh EXCEPT ![t].pc = "failed", ![t].error = "validation"]
            /\ roleModule' = ValidRowsMap(refresh[t].results)
       ELSE /\ refresh' = [refresh EXCEPT ![t].pc = "build", ![t].moduleMap = EmptyMap,
                                          ![t].i = 1]
            /\ UNCHANGED roleModule
    /\ UNCHANGED <<started, timerVars>>
    /\ UNCHANGED <<storageVars, edits, now, req, loginVars, sessionVars>>

\* roleAccessManager.ts 43-52, 62-64: safeParse; a failure is thrown and caught
RefreshParse(t) ==
    /\ refresh[t].pc = "parse"
    /\ refresh' =
         IF ~ SafeParse(refresh[t].results)
         THEN [refresh EXCEPT ![t].pc = "failed", ![t].error = "validation"]
         ELSE [refresh EXCEPT ![t].pc = "build", ![t].moduleMap = EmptyMap, ![t].i = 1]
    /\ UNCHANGED <<roleModule, started, timerVars>>
    /\ UNCHANGED <<storageVars, edits, now, req, loginVars, sessionVars>>

\* MapAdd with the set replaced on every row
MapAdd_Overwrite(map, roleId, permission) ==
    [r \in DOMAIN map \cup {roleId} |->
        IF r = roleId THEN {permission} ELSE map[r]]

\* roleAccessManager.ts 55-58: moduleMap.get(roleId).add(permission), with the
\* set created on the role's first row
MapAdd(map, roleId, permission) ==
    [r \in DOMAIN map \cup {roleId} |->
        IF r = roleId
        THEN (IF r \in DOMAIN map THEN map[r] ELSE {}) \cup {permission}
        ELSE map[r]]

\* RefreshAddRow adding the row to the map checkAccess reads
RefreshAddRow_InPlace(t) ==
    /\ refresh[t].pc = "build"
    /\ refresh[t].i <= Len(refresh[t].results)
    /\ LET row == refresh[t].results[refresh[t].i]
       IN  /\ refresh' = [refresh EXCEPT
                            ![t].moduleMap = MapAdd(refresh[t].moduleMap, row.roleId,
                                                    row.permission),
                            ![t].i = refresh[t].i + 1]
           /\ roleModule' = MapAdd(roleModule, row.roleId, row.permission)
    /\ UNCHANGED <<started, timerVars>>
    /\ UNCHANGED <<storageVars, edits, now, req, loginVars, sessionVars>>

\* roleAccessManager.ts 54-59: one turn of the loop over parsed.data
RefreshAddRow(t) ==
    /\ refresh[t].pc = "build"
    /\ refresh[t].i <= Len(refresh[t].results)
    /\ LET row == refresh[t].results[refresh[t].i]
       IN  refresh' = [refresh EXCEPT
                         ![t].moduleMap = MapAdd(refresh[t].moduleMap, row.roleId,
                                                 row.permission),
                         ![t].i = refresh[t].i + 1]
    /\ UNCHANGED <<roleModule, started, timerVars>>
    /\ UNCHANGED <<storageVars, edits, now, req, loginVars, sessionVars>>

\* roleAccessManager.ts 61: this.roleModule = moduleMap
RefreshInstall(t) ==
    /\ refresh[t].pc = "build"
    /\ refresh[t].i > Len(refresh[t].results)
    /\ roleModule' = refresh[t].moduleMap
    /\ refresh' = [refresh EXCEPT ![t].pc = "done"]
    /\ UNCHANGED <<started, timerVars>>
    /\ UNCHANGED <<storageVars, edits, now, req, loginVars, sessionVars>>

\* roleAccessManager.ts 81-84
checkAccess(roleId, keyword) ==
    IF roleId \in DOMAIN roleModule THEN keyword \in roleModule[roleId] ELSE FALSE

(***************************************************************************)
(* AuthWebController.handleAzureLogin: federated login                     *)
(***************************************************************************)
INTERNAL_SERVER_ERROR == 500

\* String.prototype.toLocaleLowerCase on the addresses of the model
ToLocaleLowerCase(str) ==
    CASE str = "C@x" -> "c@x"
      [] str = "D@x" -> "d@x"
      [] OTHER -> str

\* microsoft.ts 12: mail: string | null
Null == "<null>"

\* the profiles Microsoft Graph answers with (mail, userPrincipalName)
Profiles ==
    {[displayName |-> "Dee", mail |-> m, userPrincipalName |-> "D@x"] :
        m \in {"C@x", "c@x", "", Null}}

NoProfile == [displayName |-> "", mail |-> "", userPrincipalName |-> ""]

\* GET https://graph.microsoft.com/v1.0/me: 200 with the profile of the
\* token's user, or 401 for a token the identity provider rejects
GraphResponses ==
    {[status |-> 200, data |-> p] : p \in Profiles}
      \cup {[status |-> 401, data |-> NoProfile]}

\* microsoft.ts 21-45: response.data, or a plain Error for every failure of
\* the request
getUserProfileFromMicrosoft(response) ==
    IF response.status = 200
    THEN [threw |-> FALSE, data |-> response.data, message |-> ""]
    ELSE [threw |-> TRUE, data |-> NoProfile,
          message |-> "Failed to fetch user profile from Microsoft Graph"]

\* auth-web.controller.ts 144-146: mail lower-cased, else the principal name
AzureEmail(azureUser) ==
    IF ToLocaleLowerCase(azureUser.mail) # ""
    THEN ToLocaleLowerCase(azureUser.mail)
    ELSE ToLocaleLowerCase(azureUser.userPrincipalName)

\* users.id: uuid().defaultRandom()
GeneratedIds == <<"n1", "n2", "n3", "n4", "n5">>

NoUserRow == UserRow("", "", "", NullHash, FALSE)
NewLogin(azureUser) ==
    [pc |-> "findUser", azureUser |-> azureUser, email |-> AzureEmail(azureUser),
     defaultRoleId |-> 0, user |-> NoUserRow, created |-> FALSE,
     error |-> NoError]

LoginsSettled == \A l \in DOMAIN login : login[l].pc \in {"returned", "failed"}

\* auth-web.controller.ts 137-146: the profile is fetched, the email derived.
\* An Error that is no AppError is answered with 500 (addErrorHandler 42-48);
\* mail.toLocaleLowerCase() on a null mail is a TypeError.
LoginStart(response) ==
    /\ Len(login) < MaxLogins
    /\ LET result == getUserProfileFromMicrosoft(response)
           azureUser == result.data
       IN  login' = Append(login,
             IF result.threw
             THEN [NewLogin(NoProfile) EXCEPT !.pc = "failed",
                     !.error = AppError(result.message, INTERNAL_SERVER_ERROR)]
             ELSE IF azureUser = NoProfile
             THEN [NewLogin(NoProfile) EXCEPT !.pc = "failed",
                     !.error = AppError("Invalid Azure token", UNAUTHORIZED)]
             ELSE IF azureUser.mail = Null
             THEN [NewLogin(NoProfile) EXCEPT !.pc = "failed",
                     !.azureUser = azureUser,
                     !.error = AppError("Cannot read properties of null",
                                        INTERNAL_SERVER_ERROR)]
             ELSE NewLogin(azureUser))
    /\ UNCHANGED <<storageVars, nextUserId, edits, now, req, cacheVars, sessionVars>>

\* one login after the other: the next starts when the previous has ended
LoginStartInSequence(response) ==
    /\ LoginsSettled
    /\ LoginStart(response)

\* ExistingUsers looking the user up by the azureId column, which is never set
ExistingUsers_ByAzureId(email) == {u \in users : u.email = email /\ u.id = email}

\* auth-web.controller.ts 148-151: SELECT FROM users WHERE email = email
ExistingUsers(email) == {u \in users : u.email = email}

\* auth-web.controller.ts 148-153
LoginFindUser(l) ==
    /\ login[l].pc = "findUser"
    /\ \/ /\ ExistingUsers(login[l].email) = {}
          /\ login' = [login EXCEPT ![l].pc = "findRole"]
       \/ \E existingUser \in ExistingUsers(login[l].email) :
            login' = [login EXCEPT ![l].pc = "returned", ![l].user = existingUser]
    /\ UNCHANGED <<storageVars, nextUserId, edits, now, req, cacheVars, sessionVars>>

\* ActiveRoleIds without the isActive condition
ActiveRoleIds_AnyRole == DOMAIN roles

\* auth-web.controller.ts 156-160: SELECT id FROM roles WHERE isActive LIMIT 1
ActiveRoleIds == {r \in DOMAIN roles : roles[r].isActive}

\* auth-web.controller.ts 156-169
LoginFindRole(l) ==
    /\ login[l].pc = "findRole"
    /\ \/ /\ ActiveRoleIds = {}
          /\ login' = [login EXCEPT ![l].pc = "failed",
                         ![l].error = AppError("No active roles found in the system",
                                               INTERNAL_SERVER_ERROR)]
       \/ \E defaultRole \in ActiveRoleIds :
            login' = [login EXCEPT ![l].pc = "insertUser",
                                   ![l].defaultRoleId = defaultRole]
    /\ UNCHANGED <<storageVars, nextUserId, edits, now, req, cacheVars, sessionVars>>

\* users.email: text().notNull().unique()
EmailTaken(email) == \E u \in users : u.email = email

\* auth-web.controller.ts 171-179: INSERT INTO users ... RETURNING; users.email
\* is unique, a second row with the email is rejected
LoginInsertUser(l) ==
    /\ login[l].pc = "insertUser"
    /\ nextUserId <= Len(GeneratedIds)
    /\ IF EmailTaken(login[l].email)
       THEN /\ login' = [login EXCEPT ![l].pc = "failed",
                           ![l].error = AppError("duplicate key", INTERNAL_SERVER_ERROR)]
            /\ UNCHANGED <<users, nextUserId>>
       ELSE LET newUser == UserRow(GeneratedIds[nextUserId],
                                   login[l].azureUser.displayName,
                                   login[l].email, NullHash, TRUE)
            IN  /\ users' = users \cup {newUser}
                /\ nextUserId' = nextUserId + 1
                /\ login' = [login EXCEPT ![l].pc = "insertUserRole",
                                          ![l].user = newUser, ![l].created = TRUE]
    /\ UNCHANGED <<roles, userRoles, rolePermissions, edits, now, req, cacheVars, sessionVars>>

\* auth-web.controller.ts 182-188: INSERT INTO user_roles, then return newUser
LoginInsertUserRole(l) ==
    /\ login[l].pc = "insertUserRole"
    /\ userRoles' = userRoles
         \cup {UserRoleRow(login[l].user.id, login[l].defaultRoleId, TRUE)}
    /\ login' = [login EXCEPT ![l].pc = "returned"]
    /\ UNCHANGED <<users, roles, rolePermissions, nextUserId, edits, now, req, cacheVars, sessionVars>>

\* auth-web.controller.ts 182-186: the insert rejects (connection lost); nothing
\* undoes the users row inserted before it
LoginInsertUserRoleError(l) ==
    /\ login[l].pc = "insertUserRole"
    /\ login' = [login EXCEPT ![l].pc = "failed",
                   ![l].error = AppError("insert failed", INTERNAL_SERVER_ERROR)]
    /\ UNCHANGED <<storageVars, nextUserId, edits, now, req, cacheVars, sessionVars>>

\* UPDATE roles SET isActive = b
SetRoleActive(r, b) ==
    /\ edits < MaxEdits
    /\ roles[r].isActive # b
    /\ roles' = [roles EXCEPT ![r].isActive = b]
    /\ edits' = edits + 1
    /\ UNCHANGED <<users, userRoles, rolePermissions>>
    /\ UNCHANGED notStorage

(***************************************************************************)
(* Issued tokens and cookies                                               *)
(***************************************************************************)
BAD_REQUEST == 400

\* the clock counts quarter hours: the seconds in one tick
TickSeconds == 900

\* the spans given to jwt.sign as expiresIn, in seconds
ExpiresIn(span) ==
    CASE span = "15m" -> 15 * 60
      [] span = "30m" -> 30 * 60
      [] span = "7d" -> 7 * 24 * 60 * 60

\* exp of a token signed now: iat + expiresIn, on the clock of the model
Exp(span) == now + (ExpiresIn(span) \div TickSeconds)

\* jwt.sign of the access-token payload; jwt.sign adds iat, the time of signing
AccessToken(k, user, roleId, e) ==
    [secret |-> k, userId |-> user.id, name |-> user.name, email |-> user.email,
     roleId |-> roleId, iat |-> now, exp |-> e]

\* issueTokens with both tokens living seven days
issueTokens_LongLived(user, roleId) ==
    [accessToken |-> AccessToken(JWT_SECRET, user, roleId, Exp("7d")),
     refreshToken |-> Token(JWT_REFRESH_SECRET, user.id, Exp("7d"))]

\* authUtils.ts 51-72
issueTokens(user, roleId) ==
    [accessToken |-> AccessToken(JWT_SECRET, user, roleId, Exp("30m")),
     refreshToken |-> Token(JWT_REFRESH_SECRET, user.id, Exp("7d"))]

\* jwt.verify(token, secret): the payload, or a throw
jwtVerify(token, secret) ==
    IF token.secret # secret THEN [success |-> FALSE, data |-> "invalid signature"]
    ELSE IF now >= token.exp THEN [success |-> FALSE, data |-> "jwt expired"]
    ELSE [success |-> TRUE, data |-> token.userId]

\* res.cookie(name, value, {httpOnly, maxAge}); maxAge in milliseconds
Cookie(value, httpOnly, maxAge) ==
    [value |-> value, httpOnly |-> httpOnly, maxAge |-> maxAge]
NoCookie == Cookie(NoToken, FALSE, 0)
NoCookies == [accessToken |-> NoCookie, refreshToken |-> NoCookie]

(***************************************************************************)
(* AuthWebController.loginUser and AuthWebController.refreshToken          *)
(***************************************************************************)
\* req.body of POST /login: absent, or an object with the fields it carries
Body(email, password) == [present |-> TRUE, email |-> email, password |-> password]
NoBody == [present |-> FALSE, email |-> "", password |-> ""]
Bodies ==
    {NoBody, Body("", ""), Body("a@x", "pw1"), Body("a@x", "bad"),
     Body("b@x", "pw1"), Body("z@x", "pw1")}

\* auth-web-parser.ts 8-19: both fields present, the email well-formed
LoginWebPostParser(body) ==
    [success |-> body.email # "" /\ body.password # "",
     data |-> [email |-> body.email, password |-> body.password]]

\* authUtils.ts 47-49: bcrypt.compare
verifyPassword(plain, hash) == Hash(plain) = hash

NewSession(kind) ==
    [kind |-> kind, pc |-> "start", via |-> 0, body |-> NoBody,
     presented |-> NoToken, decoded |-> "", user |-> NoUserRow, roleId |-> 0,
     accessToken |-> NoToken, refreshToken |-> NoToken, cookies |-> NoCookies,
     cleared |-> {}, error |-> NoError, message |-> ""]

SessionsSettled == \A s \in DOMAIN session : session[s].pc \in {"sent", "failed"}

\* the loginUser execution that called handleAzureLogin l has gone on
Resumed(l) == \E s \in DOMAIN session : session[s].via = l

\* no request is in progress
Quiet ==
    /\ LoginsSettled
    /\ SessionsSettled
    /\ \A l \in DOMAIN login : Resumed(l)

\* auth-web.controller.ts 30-36, 137-146: a bearer token is carried, and
\* handleAzureLogin is called with it
LoginUserAzure(response) ==
    /\ Quiet
    /\ Len(session) < MaxSessions
    /\ LoginStart(response)

\* auth-web.controller.ts 35, 87-100: handleAzureLogin returns the user and
\* the default-role query is issued
LoginUserAzureReturned(l) ==
    /\ login[l].pc = "returned"
    /\ ~ Resumed(l)
    /\ session' = Append(session,
                    [NewSession("login") EXCEPT !.pc = "defaultRole", !.via = l,
                                                !.user = login[l].user])
    /\ UNCHANGED <<storageVars, edits, now, req, cacheVars, loginVars,
                   JWT_REFRESH_SECRET>>

\* auth-web.controller.ts 35: handleAzureLogin throws, and so does loginUser
LoginUserAzureThrew(l) ==
    /\ login[l].pc = "failed"
    /\ ~ Resumed(l)
    /\ session' = Append(session,
                    [NewSession("login") EXCEPT !.pc = "failed", !.via = l,
                                                !.error = login[l].error])
    /\ UNCHANGED <<storageVars, edits, now, req, cacheVars, loginVars,
                   JWT_REFRESH_SECRET>>

\* auth-web.controller.ts 39-48, 80-85: no bearer token; the body is parsed
\* and the users query issued.  A ZodError is answered 400 'Validation Error'
\* (addErrorHandler 28-35).
LoginUserLocal(body) ==
    /\ Quiet
    /\ Len(session) < MaxSessions
    /\ LET result == LoginWebPostParser(body)
       IN  session' = Append(session,
             IF ~ body.present
             THEN [NewSession("login") EXCEPT !.pc = "failed", !.body = body,
                     !.error = AppError(
                        "Missing credentials: expected Azure token or email/password.",
                        BAD_REQUEST)]
             ELSE IF ~ result.success
             THEN [NewSession("login") EXCEPT !.pc = "failed", !.body = body,
                     !.error = AppError("Validation Error", BAD_REQUEST)]
             ELSE [NewSession("login") EXCEPT !.pc = "findUser", !.body = body])
    /\ UNCHANGED <<storageVars, edits, now, req, cacheVars, loginVars,
                   JWT_REFRESH_SECRET>>

\* LocalLoginError telling an unknown email from a wrong password
LocalLoginError_NamesCondition(rows, password) ==
    IF rows = {} THEN AppError("User not found", BAD_REQUEST)
    ELSE LET userRecord == CHOOSE u \in rows : TRUE
         IN  IF userRecord.passwordHash = NullHash
             THEN AppError("Incorrect Email/Password", BAD_REQUEST)
             ELSE IF ~ verifyPassword(password, userRecord.passwordHash)
             THEN AppError("Incorrect Email/Password", BAD_REQUEST)
             ELSE IF ~ userRecord.isActive
             THEN AppError("Your account is inactive", BAD_REQUEST)
             ELSE NoError

\* auth-web.controller.ts 50-77: the checks on the users row the query found
LocalLoginError(rows, password) ==
    IF rows = {} THEN AppError("Incorrect Email/Password", BAD_REQUEST)
    ELSE LET userRecord == CHOOSE u \in rows : TRUE
         IN  IF userRecord.passwordHash = NullHash
             THEN AppError("Incorrect Email/Password", BAD_REQUEST)
             ELSE IF ~ verifyPassword(password, userRecord.passwordHash)
             THEN AppError("Incorrect Email/Password", BAD_REQUEST)
             ELSE IF ~ userRecord.isActive
             THEN AppError("Your account is inactive", BAD_REQUEST)
             ELSE NoError

\* auth-web.controller.ts 44-48: SELECT FROM users WHERE email = email
UserRecords(email) == {u \in users : u.email = email}

\* auth-web.controller.ts 44-100: the users query is answered, the record
\* checked, the default-role query issued
LoginLocalVerify(s) ==
    /\ session[s].kind = "login"
    /\ session[s].pc = "findUser"
    /\ LET rows == UserRecords(session[s].body.email)
           error == LocalLoginError(rows, session[s].body.password)
       IN  IF error # NoError
           THEN session' = [session EXCEPT ![s].pc = "failed", ![s].error = error]
           ELSE \E userRecord \in rows :
                  session' = [session EXCEPT ![s].pc = "defaultRole",
                                             ![s].user = userRecord]
    /\ UNCHANGED <<storageVars, edits, now, req, cacheVars, loginVars,
                   JWT_REFRESH_SECRET>>

\* DefaultRoleIds without the isDefault condition
DefaultRoleIds_AnyRole(userId) ==
    {ur.roleId : ur \in {x \in userRoles : x.userId = userId}}

\* auth-web.controller.ts 88-100, 214-226: SELECT roleId FROM user_roles WHERE
\* userId = userId AND isDefault
DefaultRoleIds(userId) ==
    {ur.roleId : ur \in {x \in userRoles : x.userId = userId /\ x.isDefault}}

NoDefaultRoleError ==
    AppError("User has no default role assigned", INTERNAL_SERVER_ERROR)

\* LoginUserDefaultRole signing the tokens and setting the cookies before it
\* looks at the row
LoginUserDefaultRole_CookiesBeforeCheck(s) ==
    /\ session[s].kind = "login"
    /\ session[s].pc = "defaultRole"
    /\ \/ /\ DefaultRoleIds(session[s].user.id) = {}
          /\ LET tokens == issueTokens(session[s].user, 0)
             IN  session' = [session EXCEPT ![s].pc = "failed",
                               ![s].accessToken = tokens.accessToken,
                               ![s].refreshToken = tokens.refreshToken,
                               ![s].cookies =
                                  [accessToken |-> Cookie(tokens.accessToken, FALSE,
                                                          30 * 60 * 1000),
                                   refreshToken |-> Cookie(tokens.refreshToken, TRUE,
                                                           7 * 24 * 60 * 60 * 1000)],
                               ![s].error = NoDefaultRoleError]
       \/ \E roleId \in DefaultRoleIds(session[s].user.id) :
            LET tokens == issueTokens(session[s].user, roleId)
            IN  session' = [session EXCEPT ![s].pc = "sent", ![s].roleId = roleId,
                              ![s].accessToken = tokens.accessToken,
                              ![s].refreshToken = tokens.refreshToken,
                              ![s].cookies =
                                 [accessToken |-> Cookie(tokens.accessToken, FALSE,
                                                         30 * 60 * 1000),
                                  refreshToken |-> Cookie(tokens.refreshToken, TRUE,
                                                          7 * 24 * 60 * 60 * 1000)],
                              ![s].message = "Login Successful"]
    /\ UNCHANGED <<storageVars, edits, now, req, cacheVars, loginVars,
                   JWT_REFRESH_SECRET>>

\* auth-web.controller.ts 88-134: the default-role query is answered (LIMIT 1
\* hands back any one matching row); tokens are issued, both cookies set and
\* the response sent
LoginUserDefaultRole(s) ==
    /\ session[s].kind = "login"
    /\ session[s].pc = "defaultRole"
    /\ \/ /\ DefaultRoleIds(session[s].user.id) = {}
          /\ session' = [session EXCEPT ![s].pc = "failed",
                                        ![s].error = NoDefaultRoleError]
       \/ \E roleId \in DefaultRoleIds(session[s].user.id) :
            LET tokens == issueTokens(session[s].user, roleId)
            IN  session' = [session EXCEPT ![s].pc = "sent", ![s].roleId = roleId,
                              ![s].accessToken = tokens.accessToken,
                              ![s].refreshToken = tokens.refreshToken,
                              ![s].cookies =
                                 [accessToken |-> Cookie(tokens.accessToken, FALSE,
                                                         30 * 60 * 1000),
                                  refreshToken |-> Cookie(tokens.refreshToken, TRUE,
                                                          7 * 24 * 60 * 60 * 1000)],
                              ![s].message = "Login Successful"]
    /\ UNCHANGED <<storageVars, edits, now, req, cacheVars, loginVars,
                   JWT_REFRESH_SECRET>>

\* the executions that answered with a pair of tokens
Issuers ==
    {x \in DOMAIN session :
        session[x].pc = "sent" /\ session[x].kind \in {"login", "refresh"}}

\* the tokens the core has handed out in cookies
IssuedTokens ==
    {session[s].accessToken : s \in Issuers}
      \cup {session[s].refreshToken : s \in Issuers}

\* what a client may present as its refresh token
RefreshInputs == {NoToken} \cup TokenPool \cup IssuedTokens

\* auth-web.controller.ts 192-207: the refresh token is read and verified, the
\* users query issued.  jwt.verify throws a plain Error, which is answered
\* 500 (addErrorHandler 41-48).
RefreshTokenVerify(refreshToken) ==
    /\ Quiet
    /\ Len(session) < MaxSessions
    /\ LET decoded == jwtVerify(refreshToken, JWT_REFRESH_SECRET)
       IN  session' = Append(session,
             IF refreshToken = NoToken
             THEN [NewSession("refresh") EXCEPT !.pc = "failed",
                     !.error = AppError("Refresh token missing", UNAUTHORIZED)]
             ELSE IF ~ decoded.success
             THEN [NewSession("refresh") EXCEPT !.pc = "failed",
                     !.presented = refreshToken,
                     !.error = AppError(decoded.data, INTERNAL_SERVER_ERROR)]
             ELSE [NewSession("refresh") EXCEPT !.pc = "findUser",
                     !.presented = refreshToken, !.decoded = decoded.data])
    /\ UNCHANGED <<storageVars, edits, now, req, cacheVars, loginVars,
                   JWT_REFRESH_SECRET>>

\* auth-web.controller.ts 203-226: the users query is answered, the
\* default-role query issued
RefreshTokenFindUser(s) ==
    /\ session[s].kind = "refresh"
    /\ session[s].pc = "findUser"
    /\ LET rows == {u \in users : u.id = session[s].decoded}
       IN  \/ /\ rows = {}
              /\ session' = [session EXCEPT ![s].pc = "failed",
                               ![s].error = AppError("Invalid refresh token",
                                                     UNAUTHORIZED)]
           \/ \E userInfo \in rows :
                session' = [session EXCEPT ![s].pc = "defaultRole",
                                           ![s].user = userInfo]
    /\ UNCHANGED <<storageVars, edits, now, req, cacheVars, loginVars,
                   JWT_REFRESH_SECRET>>

\* the role ids in the access tokens handed to the user before
EarlierRoleIds(userId) ==
    {session[x].roleId :
        x \in {y \in DOMAIN session :
                 session[y].pc = "sent" /\ session[y].user.id = userId}}

\* RefreshTokenDefaultRole copying the role of an earlier access token
RefreshTokenDefaultRole_RoleOfEarlierToken(s) ==
    /\ session[s].kind = "refresh"
    /\ session[s].pc = "defaultRole"
    /\ \/ /\ DefaultRoleIds(session[s].user.id) = {}
          /\ session' = [session EXCEPT ![s].pc = "failed",
                                        ![s].error = NoDefaultRoleError]
       \/ \E roleId \in (IF EarlierRoleIds(session[s].user.id) # {}
                         THEN EarlierRoleIds(session[s].user.id)
                         ELSE DefaultRoleIds(session[s].user.id)) :
            /\ DefaultRoleIds(session[s].user.id) # {}
            /\ LET accessToken ==
                      AccessToken(JWT_SECRET, session[s].user, roleId, Exp("15m"))
                   newRefreshToken ==
                      Token(JWT_REFRESH_SECRET, session[s].user.id, Exp("7d"))
               IN  session' = [session EXCEPT ![s].pc = "sent", ![s].roleId = roleId,
                                 ![s].accessToken = accessToken,
                                 ![s].refreshToken = newRefreshToken,
                                 ![s].cookies =
                                    [accessToken |-> Cookie(accessToken, FALSE,
                                                            30 * 60 * 1000),
                                     refreshToken |-> Cookie(newRefreshToken, TRUE,
                                                             7 * 24 * 60 * 60 * 1000)],
                                 ![s].message = "Tokens refreshed successfully"]
    /\ UNCHANGED <<storageVars, edits, now, req, cacheVars, loginVars,
                   JWT_REFRESH_SECRET>>

\* auth-web.controller.ts 214-272: the default-role query is answered (LIMIT 1
\* hands back any one matching row); both tokens are signed, both cookies set
\* and the response sent
RefreshTokenDefaultRole(s) ==
    /\ session[s].kind = "refresh"
    /\ session[s].pc = "defaultRole"
    /\ \/ /\ DefaultRoleIds(session[s].user.id) = {}
          /\ session' = [session EXCEPT ![s].pc = "failed",
                                        ![s].error = NoDefaultRoleError]
       \/ \E roleId \in DefaultRoleIds(session[s].user.id) :
            LET accessToken ==
                   AccessToken(JWT_SECRET, session[s].user, roleId, Exp("15m"))
                newRefreshToken ==
                   Token(JWT_REFRESH_SECRET, session[s].user.id, Exp("7d"))
            IN  session' = [session EXCEPT ![s].pc = "sent", ![s].roleId = roleId,
                              ![s].accessToken = accessToken,
                              ![s].refreshToken = newRefreshToken,
                              ![s].cookies =
                                 [accessToken |-> Cookie(accessToken, FALSE,
                                                         30 * 60 * 1000),
                                  refreshToken |-> Cookie(newRefreshToken, TRUE,
                                                          7 * 24 * 60 * 60 * 1000)],
                              ![s].message = "Tokens refreshed successfully"]
    /\ UNCHANGED <<storageVars, edits, now, req, cacheVars, loginVars,
                   JWT_REFRESH_SECRET>>

\* LogoutUser changing the refresh secret, so that no refresh token handed out
\* before is accepted again
LogoutUser_RotatesSecret ==
    /\ Quiet
    /\ Len(session) < MaxSessions
    /\ session' = Append(session,
                    [NewSession("logout") EXCEPT !.pc = "sent",
                       !.cleared = {"accessToken", "refreshToken"},
                       !.message = "Logged out successfully"])
    /\ JWT_REFRESH_SECRET' = "rotated"
    /\ UNCHANGED <<storageVars, edits, now, req, cacheVars, loginVars>>

\* auth-web.controller.ts 275-291: res.clearCookie for both names, then send
LogoutUser ==
    /\ Quiet
    /\ Len(session) < MaxSessions
    /\ session' = Append(session,
                    [NewSession("logout") EXCEPT !.pc = "sent",
                       !.cleared = {"accessToken", "refreshToken"},
                       !.message = "Logged out successfully"])
    /\ UNCHANGED <<storageVars, edits, now, req, cacheVars, loginVars,
                   JWT_REFRESH_SECRET>>

\* UPDATE users SET isActive = b WHERE id = u
SetUserActive(u, b) ==
    /\ edits < MaxEdits
    /\ \E row \in users :
         /\ row.id = u
         /\ row.isActive # b
         /\ users' = (users \ {row}) \cup {[row EXCEPT !.isActive = b]}
    /\ edits' = edits + 1
    /\ UNCHANGED <<roles, userRoles, rolePermissions>>
    /\ UNCHANGED notStorage

(***************************************************************************)
(* Specifications.                                                         *)
(***************************************************************************)

Init ==
    /\ StorageInit
    /\ edits = 0
    /\ now = 0
    /\ req = IdleRequest
    /\ roleModule = EmptyMap
    /\ refresh = <<>>
    /\ started = FALSE
    /\ intervalId = NoTimeout
    /\ timers = {}
    /\ login = <<>>
    /\ nextUserId = 1
    /\ session = <<>>
    /\ JWT_REFRESH_SECRET = "s2"

StorageEdit ==
    \/ \E u \in UserIds, r \in RoleIds, d \in BOOLEAN : InsertUserRole(u, r, d)
    \/ \E u \in UserIds, r \in RoleIds, d \in BOOLEAN : UpdateUserRoleDefault(u, r, d)
    \/ \E u \in UserIds, r \in RoleIds : DeleteUserRole(u, r)
    \/ \E r \in RoleIds, p \in PermIds : InsertRolePermission(r, p)
    \/ \E r \in RoleIds, p \in PermIds : DeleteRolePermission(r, p)

\* requests going through protect and the permission gate while rows change
NextProtect ==
    \/ \E c \in TokenPool \cup {NoToken}, h \in Headers : Arrive(c, h)
    \/ ProtectVerify
    \/ ProtectDefaultRole
    \/ ProtectAllRoles
    \/ ProtectPermissions
    \/ \E k \in ModuleEnum : Middleware(k)
    \/ RouteHandler
    \/ Respond
    \/ StorageEdit
    \/ Tick

SpecProtect == Init /\ [][NextProtect]_vars

\* the cache refreshing while role_permissions rows change
NextCache ==
    \/ InitCache
    \/ IntervalFires
    \/ \E t \in DOMAIN refresh : RefreshQuery(t)
    \/ \E t \in DOMAIN refresh : RefreshQueryError(t)
    \/ \E t \in DOMAIN refresh : RefreshParse(t)
    \/ \E t \in DOMAIN refresh : RefreshAddRow(t)
    \/ \E t \in DOMAIN refresh : RefreshInstall(t)
    \/ \E r \in RoleIds, p \in PermIds : InsertRolePermission(r, p)
    \/ \E r \in RoleIds, p \in PermIds : DeleteRolePermission(r, p)

SpecCache == Init /\ [][NextCache]_vars

\* the cache's refresh scheduling started and stopped any number of times
NextLifecycle ==
    \/ init
    \/ stopIt
    \/ IntervalFires
    \/ \E t \in DOMAIN refresh : RefreshQuery(t)
    \/ \E t \in DOMAIN refresh : RefreshQueryError(t)
    \/ \E t \in DOMAIN refresh : RefreshParse(t)
    \/ \E t \in DOMAIN refresh : RefreshAddRow(t)
    \/ \E t \in DOMAIN refresh : RefreshInstall(t)

SpecLifecycle == Init /\ [][NextLifecycle]_vars

\* federated logins made one after the other
NextLoginSeq ==
    \/ \E a \in GraphResponses : LoginStartInSequence(a)
    \/ \E l \in DOMAIN login : LoginFindUser(l)
    \/ \E l \in DOMAIN login : LoginFindRole(l)
    \/ \E l \in DOMAIN login : LoginInsertUser(l)
    \/ \E l \in DOMAIN login : LoginInsertUserRole(l)
    \/ \E l \in DOMAIN login : LoginInsertUserRoleError(l)
    \/ \E r \in RoleIds, b \in BOOLEAN : SetRoleActive(r, b)

SpecLoginSeq == Init /\ [][NextLoginSeq]_vars

\* the state after startup under any configuration envSchema accepts: the two
\* secrets are strings, equal or not
InitAnyEnv ==
    /\ StorageInit
    /\ edits = 0
    /\ now = 0
    /\ req = IdleRequest
    /\ roleModule = EmptyMap
    /\ refresh = <<>>
    /\ started = FALSE
    /\ intervalId = NoTimeout
    /\ timers = {}
    /\ login = <<>>
    /\ nextUserId = 1
    /\ session = <<>>
    /\ JWT_REFRESH_SECRET \in Secrets

\* password logins and refreshes made one after the other while the rows of
\* the user who logs in change and time passes
NextSession ==
    \/ \E body \in Bodies : LoginUserLocal(body)
    \/ \E s \in DOMAIN session : LoginLocalVerify(s)
    \/ \E s \in DOMAIN session : LoginUserDefaultRole(s)
    \/ \E t \in RefreshInputs : RefreshTokenVerify(t)
    \/ \E s \in DOMAIN session : RefreshTokenFindUser(s)
    \/ \E s \in DOMAIN session : RefreshTokenDefaultRole(s)
    \/ LogoutUser
    \/ \E r \in RoleIds, d \in BOOLEAN : UpdateUserRoleDefault("u1", r, d)
    \/ \E b \in BOOLEAN : SetUserActive("u1", b)
    \/ Tick

SpecSession == InitAnyEnv /\ [][NextSession]_vars

\* federated logins made one after the other through loginUser while users
\* are activated and deactivated
NextFederated ==
    \/ \E a \in GraphResponses : LoginUserAzure(a)
    \/ \E l \in DOMAIN login : LoginFindUser(l)
    \/ \E l \in DOMAIN login : LoginFindRole(l)
    \/ \E l \in DOMAIN login : LoginInsertUser(l)
    \/ \E l \in DOMAIN login : LoginInsertUserRole(l)
    \/ \E l \in DOMAIN login : LoginInsertUserRoleError(l)
    \/ \E l \in DOMAIN login : LoginUserAzureReturned(l)
    \/ \E l \in DOMAIN login : LoginUserAzureThrew(l)
    \/ \E s \in DOMAIN session : LoginUserDefaultRole(s)
    \/ \E u \in UserIdsStored, b \in BOOLEAN : SetUserActive(u, b)

SpecFederated == Init /\ [][NextFederated]_vars

\* federated logins made at the same time: a login may start while others
\* are between two of their queries
NextLoginConcurrent ==
    \/ \E a \in GraphResponses : LoginStart(a)
    \/ \E l \in DOMAIN login : LoginFindUser(l)
    \/ \E l \in DOMAIN login : LoginFindRole(l)
    \/ \E l \in DOMAIN login : LoginInsertUser(l)
    \/ \E l \in DOMAIN login : LoginInsertUserRole(l)
    \/ \E l \in DOMAIN login : LoginUserAzureReturned(l)
    \/ \E l \in DOMAIN login : LoginUserAzureThrew(l)
    \/ \E s \in DOMAIN session : LoginUserDefaultRole(s)

SpecLoginConcurrent == Init /\ [][NextLoginConcurrent]_vars

\* the tokens of a password login and of its refreshes presented to protect
\* while the roles of the user change
NextAccess ==
    \/ LoginUserLocal(Body("a@x", "pw1"))
    \/ \E s \in DOMAIN session : LoginLocalVerify(s)
    \/ \E s \in DOMAIN session : LoginUserDefaultRole(s)
    \/ \E t \in IssuedTokens : RefreshTokenVerify(t)
    \/ \E s \in DOMAIN session : RefreshTokenFindUser(s)
    \/ \E s \in DOMAIN session : RefreshTokenDefaultRole(s)
    \/ \E c \in IssuedTokens : Arrive(c, NoHeader)
    \/ ProtectVerify
    \/ ProtectDefaultRole
    \/ ProtectAllRoles
    \/ ProtectPermissions
    \/ RouteHandler
    \/ Respond
    \/ \E r \in RoleIds, d \in BOOLEAN : UpdateUserRoleDefault("u1", r, d)
    \/ \E r \in RoleIds : DeleteUserRole("u1", r)
    \/ \E r \in RoleIds, p \in PermIds : InsertRolePermission(r, p)
    \/ \E r \in RoleIds, p \in PermIds : DeleteRolePermission(r, p)

SpecAccess == Init /\ [][NextAccess]_vars

(***************************************************************************)
(* Properties of protect and the permission gate (SpecProtect).            *)
(***************************************************************************)
\* the role ids of the user's user_roles rows, default or not
RolesHeld(userId) == {ur.roleId : ur \in {x \in userRoles : x.userId = userId}}

\* the codes granted to at least one role the user holds
CodesGranted(userId) ==
    {permissions[rp.permissionId] :
        rp \in {x \in rolePermissions : x.roleId \in RolesHeld(userId)}}

NoDuplicates(seq) == \A i, j \in 1..Len(seq) : seq[i] = seq[j] => i = j

\* protect leaves its last query and calls next
ProtectSucceeds == req.pc \in {"allRoles", "permissions"} /\ req'.pc = "next"

\* C1: when protect succeeds for a user whose user_roles rows are those it
\* read, the permissions it attaches are exactly the codes granted to at
\* least one of the user's roles (every user_roles row counts, whatever its
\* isDefault flag), each code once.  The role ids it reads are those of all
\* the user's rows.
C1_PermissionsAreUnionOverAllRoles ==
    [][/\ (req.pc = "allRoles" /\ req'.pc # "allRoles")
            => Range(req'.roleIds) = RolesHeld(req.decoded)
       /\ (ProtectSucceeds /\ Range(req'.roleIds) = RolesHeld(req.decoded))
            => /\ req'.user_details.attached
               /\ Range(req'.user_details.permissions) = CodesGranted(req.decoded)
               /\ NoDuplicates(req'.user_details.permissions)]_vars

\* C1 happens: a user holding a default and a non-default role with a shared
\* code got every code of both roles
C1_Witness ==
    /\ req.pc = "next"
    /\ req.decoded = "u1"
    /\ req.roleIds = <<1, 2>>
    /\ UserRoleRow("u1", 2, FALSE) \in userRoles
    /\ Range(req.user_details.permissions)
         = {"viewdashboard", "manageusers", "viewreports"}
    /\ Len(req.user_details.permissions) = 3

\* the request carries no usable token, or one that does not verify now
TokenUnusable(r) ==
    \/ r.cookie = NoToken /\ r.authorization.scheme # "Bearer"
    \/ r.cookie = NoToken /\ r.authorization.token = NoToken
    \/ ExtractToken(r).secret # JWT_SECRET
    \/ now >= ExtractToken(r).exp

\* C2: a request without an access token (no cookie, no Bearer header), or
\* whose token fails signature or expiry verification, fails with 401, has
\* no user_details attached and never reaches the next handler.
C2_NoTokenNoEntry ==
    [][/\ (req.pc = "protect" /\ req'.pc # "protect" /\ TokenUnusable(req))
            => /\ req'.pc = "failed"
               /\ req'.error.status = UNAUTHORIZED
               /\ ~ req'.user_details.attached
               /\ ~ req'.nextCalled
       /\ req.pc = "failed" => req' \in {req, IdleRequest}]_vars

\* C2 happens: an expired cookie token was turned away
C2_Witness ==
    /\ req.pc = "failed"
    /\ req.cookie.secret = JWT_SECRET
    /\ now >= req.cookie.exp
    /\ req.error = AppError("Authentication token missing", UNAUTHORIZED)

\* the user_roles rows of the user that are flagged default
DefaultRows(userId) == {ur \in userRoles : ur.userId = userId /\ ur.isDefault}

UserStored(userId) == \E u \in users : u.id = userId

\* C3: with no default user_roles row for the token's user (no users row, no
\* roles, or only non-default roles), protect fails with 401 'invalid
\* session', attaches nothing and does not call next.
C3_NoDefaultRoleUnauthorized ==
    [][(/\ req.pc = "defaultRole"
        /\ req'.pc # "defaultRole"
        /\ (~ UserStored(req.decoded) \/ DefaultRows(req.decoded) = {}))
          => /\ req'.pc = "failed"
             /\ req'.error = AppError("Invalid session, please login again",
                                      UNAUTHORIZED)
             /\ ~ req'.user_details.attached
             /\ ~ req'.nextCalled]_vars

\* C3 happens: the user holds a non-default role that grants codes and was
\* turned away
C3_Witness ==
    /\ req.pc = "failed"
    /\ req.error.message = "Invalid session, please login again"
    /\ req.decoded = "u1"
    /\ DefaultRows("u1") = {}
    /\ CodesGranted("u1") # {}

\* C4: with more than one default user_roles row for the user, protect
\* fails with 401 rather than go on with one of the rows.
C4_SeveralDefaultsFailClosed ==
    [][(/\ req.pc = "defaultRole"
        /\ req'.pc # "defaultRole"
        /\ Cardinality(DefaultRows(req.decoded)) > 1)
          => /\ req'.pc = "failed"
             /\ req'.error.status = UNAUTHORIZED]_vars

\* the gate for a keyword has answered
GateAnswers == req.pc = "next" /\ req'.keyword # ""

\* C5: the gate for code c lets the handler run exactly when c is an element
\* of the permissions protect attached; otherwise it answers 403 and the
\* handler does not run.
C5_GateExactMatch ==
    [][GateAnswers
         => /\ req'.handlerRan
                <=> req'.keyword \in Range(req.user_details.permissions)
            /\ req'.keyword \notin Range(req.user_details.permissions)
                => req'.status = FORBIDDEN /\ req'.pc = "responded"
            /\ req'.handlerRan => req'.status = 0]_vars

\* C5 happens: an authenticated user holding other codes was answered 403
C5_Witness ==
    /\ req.pc = "responded"
    /\ req.status = FORBIDDEN
    /\ req.user_details.attached
    /\ req.user_details.permissions # <<>>
    /\ req.keyword \notin Range(req.user_details.permissions)
    /\ ~ req.handlerRan

(***************************************************************************)
(* Properties of the permission cache (SpecCache).                         *)
(***************************************************************************)
\* every code a row can carry
Codes == {permissions[p] : p \in PermIds}

\* the answer a complete snapshot built from the rows gives
SnapshotAnswer(rows, roleId, keyword) ==
    \E i \in 1..Len(rows) : rows[i].roleId = roleId /\ rows[i].permission = keyword

\* task t installs its map in this step
Installs(t) == refresh[t].pc = "build" /\ refresh'[t].pc = "done"

\* task t ends in its catch block in this step
Fails(t) == refresh[t].pc \in {"query", "parse"} /\ refresh'[t].pc = "failed"

RefreshInProgress(t) ==
    /\ refresh[t].pc = "build"
    /\ refresh[t].i > 1
    /\ refresh[t].i <= Len(refresh[t].results)

\* C6: while refreshes run, the answers of checkAccess change only in the
\* step that installs a fully built map, and then they are the answers of
\* the complete result that refresh read: every answer is that of the
\* snapshot installed before or of the one installed by the refresh, never
\* that of a partly built map.
C6_SnapshotSwappedWhole ==
    [][\/ \A r \in RoleIds, c \in Codes : checkAccess(r, c)' = checkAccess(r, c)
       \/ \E t \in DOMAIN refresh :
            /\ Installs(t)
            /\ \A r \in RoleIds, c \in Codes :
                 checkAccess(r, c)' = SnapshotAnswer(refresh[t].results, r, c)]_vars

\* C6 happens: a refresh has built part of a map that differs from the
\* snapshot in use, which still answers
C6_Witness ==
    \E t \in DOMAIN refresh :
        /\ RefreshInProgress(t)
        /\ roleModule # EmptyMap
        /\ \E r \in RoleIds, c \in Codes :
             /\ checkAccess(r, c)
             /\ ~ SnapshotAnswer(refresh[t].results, r, c)
        /\ \E r \in RoleIds, c \in Codes :
             /\ ~ checkAccess(r, c)
             /\ r \in DOMAIN refresh[t].moduleMap
             /\ c \in refresh[t].moduleMap[r]

\* C7: a refresh that fails (the read rejects, or the result does not
\* validate) leaves the snapshot and every checkAccess answer as they were,
\* and nothing is thrown to the caller or the timer.
C7_FailedRefreshKeepsSnapshot ==
    [][\A t \in DOMAIN refresh :
         Fails(t)
           => /\ roleModule' = roleModule
              /\ \A r \in RoleIds, c \in Codes : checkAccess(r, c)' = checkAccess(r, c)
              /\ ~ refresh'[t].threw]_vars

\* C7 happens: after a successful refresh another one failed on validation
\* and the earlier answers are still given
C7_Witness ==
    \E s, t \in DOMAIN refresh :
        /\ refresh[s].pc = "done"
        /\ refresh[t].pc = "failed"
        /\ refresh[t].error = "validation"
        /\ ~ refresh[t].threw
        /\ checkAccess(1, "viewdashboard")

NoRefreshSucceeded == \A t \in DOMAIN refresh : refresh[t].pc # "done"

\* C8: until a refresh has completed successfully (none started, the startup
\* refresh in flight, or failed), checkAccess answers false for every role
\* and code.
C8_ColdStartDeniesAll ==
    NoRefreshSucceeded => \A r \in RoleIds, c \in Codes : ~ checkAccess(r, c)

\* C8 happens: the startup refresh failed while roles are granted codes
C8_Witness ==
    /\ started
    /\ refresh # <<>>
    /\ refresh[1].pc = "failed"
    /\ NoRefreshSucceeded
    /\ rolePermissions # {}

\* what the live join of protect yields for a user whose only role is r
LiveCodes(r) == Range(UniquePerms(AllUserPermissions(<<r>>)))

\* C9: in every state the cache has been loaded in, also after rows of
\* role_permissions change, checkAccess(r, c) is true exactly when the live
\* join of protect would include c for a user whose only role is r.
C9_CacheEqualsLiveAlways ==
    ~ NoRefreshSucceeded
      => \A r \in RoleIds, c \in ModuleEnum : checkAccess(r, c) <=> c \in LiveCodes(r)

\* C9 as amended: when a refresh installs its snapshot and the rows stored
\* are those it read, checkAccess(r, c) is true exactly when the live join of
\* protect would include c for a user whose only role is r.
C9_CacheEqualsLiveAtInstall ==
    [][\A t \in DOMAIN refresh :
         (Installs(t) /\ refresh[t].results = RoleModuleRows)
           => \A r \in RoleIds, c \in Codes :
                checkAccess(r, c)' <=> c \in LiveCodes(r)]_vars

\* C9 happens: a refresh read rows granting a role two codes, installed them
\* and the rows stored are still those
C9_Witness ==
    \E t \in DOMAIN refresh :
        /\ refresh[t].pc = "done"
        /\ refresh[t].results = RoleModuleRows
        /\ roleModule = refresh[t].moduleMap
        /\ \E r \in RoleIds : Cardinality(LiveCodes(r)) >= 2
        /\ edits > 0

(***************************************************************************)
(* Properties of federated login (SpecLoginSeq).                           *)
(***************************************************************************)
\* login a returned the user it created, and login b, made after it, carries
\* the same identity-provider profile
RepeatOf(a, b) ==
    /\ a < b
    /\ login[a].azureUser = login[b].azureUser
    /\ login[a].pc = "returned"
    /\ login[a].created

\* C10: a federated login repeated with the same identity-provider email
\* after one that created the user finds that user: it returns the user the
\* first created and inserts nothing, and there is exactly one users row
\* with that email and exactly one default user_roles row for it.
C10_FederatedLoginIdempotent ==
    \A a, b \in DOMAIN login :
        RepeatOf(a, b)
          => /\ login[b].pc \in {"findUser", "returned"}
             /\ ~ login[b].created
             /\ login[b].pc = "returned" => login[b].user = login[a].user
             /\ Cardinality({u \in users : u.email = login[a].email}) = 1
             /\ Cardinality(DefaultRows(login[a].user.id)) = 1

\* C10 happens: the second of two logins with one profile returned the user
\* the first created
C10_Witness ==
    \E a, b \in DOMAIN login :
        /\ RepeatOf(a, b)
        /\ login[b].pc = "returned"
        /\ login[b].user = login[a].user
        /\ login[a].user \in users

\* login l has ended, by returning a user or by throwing
LoginEnded(l) == login[l].pc \in {"returned", "failed"}

\* C11: when handleAzureLogin has ended, by returning or by throwing at any
\* step, the users row it inserted is stored together with a default
\* user_roles row for it: a users row without a default role is never left
\* behind.
C11_UserCreationAtomic ==
    \A l \in DOMAIN login :
        (LoginEnded(l) /\ login[l].created /\ login[l].user \in users)
          => DefaultRows(login[l].user.id) # {}

\* no roles row has isActive = true
NoRoleActive == \A r \in DOMAIN roles : ~ roles[r].isActive

NoActiveRolesError ==
    AppError("No active roles found in the system", INTERNAL_SERVER_ERROR)

\* C12: a federated login for an email no users row carries, made while no
\* role is active, fails with the no-active-roles error, and the users and
\* user_roles rows are those stored before; the failed login does nothing
\* more.
C12_NoActiveRoleNoUser ==
    [][\A l \in DOMAIN login :
         /\ (login[l].pc = "findRole" /\ login'[l].pc # "findRole" /\ NoRoleActive)
               => /\ login'[l].pc = "failed"
                  /\ login'[l].error = NoActiveRolesError
                  /\ ~ login'[l].created
                  /\ users' = users
                  /\ userRoles' = userRoles
         /\ login[l].pc = "failed" => login'[l] = login[l]]_vars

\* C12 happens: every role was deactivated and a login for an unknown email
\* failed, leaving the seeded rows
C12_Witness ==
    \E l \in DOMAIN login :
        /\ login[l].pc = "failed"
        /\ login[l].error = NoActiveRolesError
        /\ NoRoleActive
        /\ ExistingUsers(login[l].email) = {}
        /\ users = SeedUsers
        /\ userRoles = SeedUserRoles

(***************************************************************************)
(* Properties of login and refresh (SpecSession).                          *)
(***************************************************************************)
\* execution s has answered with a pair of tokens
Sent(s) == s \in Issuers

\* execution s sends its success response in this step
Sends(s) == session[s].pc # "sent" /\ session'[s].pc = "sent"

\* C13: no login, local or federated, sets the cookies for a user whose
\* users row, as the login read it, says isActive = false; and a local login
\* with the right password that is turned away at the credential checks
\* fails with the account-inactive error.
C13_InactiveUserGetsNoCookies ==
    \A s \in DOMAIN session :
        /\ (session[s].kind = "login" /\ Sent(s)) => session[s].user.isActive
        /\ (/\ session[s].kind = "login"
            /\ session[s].via = 0
            /\ session[s].pc = "failed"
            /\ session[s].user = NoUserRow
            /\ \E u \in users :
                 /\ u.email = session[s].body.email
                 /\ u.passwordHash = Hash(session[s].body.password))
             => session[s].error = AppError("Your account is inactive", BAD_REQUEST)

\* C14: an execution of login or refresh that has not reached its success
\* response has issued no token and set no cookie, whatever made it fail;
\* a failed execution carries its error.
C14_FailureSetsNoCookie ==
    \A s \in DOMAIN session :
        /\ ~ Sent(s)
             => /\ session[s].cookies = NoCookies
                /\ session[s].accessToken = NoToken
                /\ session[s].refreshToken = NoToken
        /\ session[s].pc = "failed" => session[s].error # NoError

\* C14 happens: a login that passed the credential checks and a refresh that
\* passed verification both failed later, and neither set a cookie
C14_Witness ==
    \E s, t \in DOMAIN session :
        /\ session[s].kind = "login"
        /\ session[s].pc = "failed"
        /\ session[s].error = NoDefaultRoleError
        /\ session[s].user \in users
        /\ session[t].kind = "refresh"
        /\ session[t].pc = "failed"
        /\ session[t].error = AppError("Invalid refresh token", UNAUTHORIZED)
        /\ session[s].cookies = NoCookies
        /\ session[t].cookies = NoCookies

\* the users query of local login s is about to be answered with no row, a
\* row without a password hash, or a row whose hash the password does not match
CredentialsFail(s) ==
    /\ session[s].kind = "login"
    /\ session[s].pc = "findUser"
    /\ \A u \in users :
         u.email = session[s].body.email
           => \/ u.passwordHash = NullHash
              \/ u.passwordHash # Hash(session[s].body.password)

\* C15: every local login that fails because the email is unknown, the
\* password hash is absent or the password does not match ends with the same
\* error, status 400 and one message, so any two such failures are alike.
C15_CredentialErrorsUniform ==
    [][\A s \in DOMAIN session :
         (CredentialsFail(s) /\ session'[s].pc # "findUser")
           => /\ session'[s].pc = "failed"
              /\ session'[s].error = AppError("Incorrect Email/Password", BAD_REQUEST)]_vars

\* C15 happens: a login with an unknown email and a login with a wrong
\* password for a known one failed with one and the same error
C15_Witness ==
    \E s, t \in DOMAIN session :
        /\ session[s].pc = "failed"
        /\ session[t].pc = "failed"
        /\ session[s].body = Body("z@x", "pw1")
        /\ session[t].body = Body("a@x", "bad")
        /\ session[s].error = session[t].error
        /\ session[s].error.status = BAD_REQUEST

\* C16: a login that succeeds sets both cookies to the tokens it issued; the
\* access token carries the id, name and email of the user the login read and
\* a roleId that a user_roles row of that user flags default at that moment;
\* the refresh token carries the userId and no other claim.
C16_LoginTokenClaims ==
    [][\A s \in DOMAIN session :
         (session[s].kind = "login" /\ Sends(s))
           => LET user == session[s].user
                  accessToken == session'[s].accessToken
                  refreshToken == session'[s].refreshToken
              IN  /\ accessToken # NoToken
                  /\ refreshToken # NoToken
                  /\ session'[s].cookies.accessToken.value = accessToken
                  /\ session'[s].cookies.refreshToken.value = refreshToken
                  /\ accessToken.userId = user.id
                  /\ accessToken.name = user.name
                  /\ accessToken.email = user.email
                  /\ UserRoleRow(user.id, accessToken.roleId, TRUE) \in userRoles
                  /\ refreshToken.userId = user.id
                  /\ DOMAIN refreshToken = {"secret", "userId", "exp"}]_vars

\* C16 happens: a password login of an active user whose default role is
\* ADMIN set both cookies, the access token carrying ADMIN's id
C16_Witness ==
    \E s \in DOMAIN session :
        /\ session[s].kind = "login"
        /\ Sent(s)
        /\ session[s].body = Body("a@x", "pw1")
        /\ session[s].user.isActive
        /\ roles[session[s].accessToken.roleId].name = "ADMIN"
        /\ session[s].cookies.accessToken.value = session[s].accessToken
        /\ session[s].cookies.refreshToken.value = session[s].refreshToken

\* every access token handed out verifies until its exp, whatever the rows
\* say by then
IssuedAccessTokensVerify ==
    \A s \in DOMAIN session :
        (Sent(s) /\ now < session[s].accessToken.exp)
          => /\ safeJwtVerify(session[s].accessToken).success
             /\ safeJwtVerify(session[s].accessToken).data = session[s].user.id

\* C17: (a) the access token a refresh mints carries a role id that a
\* user_roles row of the user flags default when the refresh reads it, also
\* after the default role was changed; (b) an access token issued before the
\* change keeps passing verification, with the roleId it was issued with,
\* until it expires.
C17_RoleChangeTakesEffectOnRefresh ==
    [][/\ \A s \in DOMAIN session :
            (session[s].kind = "refresh" /\ Sends(s))
              => UserRoleRow(session[s].user.id, session'[s].accessToken.roleId, TRUE)
                   \in userRoles
       /\ \A s \in DOMAIN session :
            Sent(s) => /\ session'[s].accessToken = session[s].accessToken
                       /\ session'[s].roleId = session[s].accessToken.roleId
       /\ IssuedAccessTokensVerify']_vars

\* C17 happens: after a login with default role 1 the default was moved to
\* role 2; the refresh made with the login's refresh token minted a token
\* with role 2 while the login's token, with role 1, still verifies
C17_Witness ==
    \E a, b \in DOMAIN session :
        /\ session[a].kind = "login"
        /\ Sent(a)
        /\ session[a].accessToken.roleId = 1
        /\ session[b].kind = "refresh"
        /\ Sent(b)
        /\ session[b].presented = session[a].refreshToken
        /\ session[b].accessToken.roleId = 2
        /\ DefaultRoleIds(session[a].user.id) = {2}
        /\ safeJwtVerify(session[a].accessToken).success

\* C18: the accessToken cookie lives 30 minutes (1800000 ms) when login sets
\* it and 15 minutes (900000 ms) when refresh sets it, which is the lifetime
\* of the token in it; the refreshToken cookie lives 7 days (604800000 ms).
C18_CookieMaxAges ==
    \A s \in DOMAIN session :
        Sent(s)
          => /\ session[s].kind = "login"
                  => session[s].cookies.accessToken.maxAge = 1800000
             /\ session[s].kind = "refresh"
                  => session[s].cookies.accessToken.maxAge = 900000
             /\ session[s].cookies.accessToken.maxAge
                  = (session[s].accessToken.exp - session[s].accessToken.iat)
                      * TickSeconds * 1000
             /\ session[s].cookies.refreshToken.maxAge = 604800000

\* the lifetime of the access token of execution s, in ticks of the clock
AccessLifetime(s) ==
    IF session[s].kind = "login" THEN (30 * 60) \div TickSeconds
    ELSE (15 * 60) \div TickSeconds

\* C19: the access token a login or refresh issued verifies, yielding the
\* user's id, at every time before its expiry, and fails verification from
\* its expiry on: 30 minutes after a login issued it, 15 minutes after a
\* refresh did.
C19_AccessTokenRoundTrip ==
    \A s \in DOMAIN session :
        Sent(s)
          => LET accessToken == session[s].accessToken
                 result == safeJwtVerify(accessToken)
             IN  /\ result.success <=> now < accessToken.iat + AccessLifetime(s)
                 /\ result.success => result.data = session[s].user.id

\* C19 happens: of two tokens issued at one time, the one minted by refresh
\* has expired and the one issued by login still verifies
C19_Witness ==
    \E a, b \in DOMAIN session :
        /\ session[a].kind = "login"
        /\ session[b].kind = "refresh"
        /\ Sent(a)
        /\ Sent(b)
        /\ session[a].accessToken.iat = session[b].accessToken.iat
        /\ safeJwtVerify(session[a].accessToken).success
        /\ ~ safeJwtVerify(session[b].accessToken).success

\* C20: under every configuration startup accepts, the refresh endpoint
\* turns away every token signed with the access-token secret, and protect
\* turns away every token signed with the refresh-token secret.
C20_TokenKindsNotInterchangeable ==
    \A s \in DOMAIN session :
        /\ (session[s].kind = "refresh" /\ session[s].presented.secret = JWT_SECRET)
             => session[s].pc = "failed"
        /\ Sent(s) => ~ safeJwtVerify(session[s].refreshToken).success

\* a logout is served in this step
LogsOut ==
    /\ Len(session') = Len(session) + 1
    /\ session'[Len(session')].kind = "logout"

\* the refresh tokens handed out are accepted by the refresh endpoint's
\* verification until their exp
IssuedRefreshTokensVerify ==
    \A s \in DOMAIN session :
        (Sent(s) /\ now < session[s].refreshToken.exp)
          => /\ jwtVerify(session[s].refreshToken, JWT_REFRESH_SECRET).success
             /\ jwtVerify(session[s].refreshToken, JWT_REFRESH_SECRET).data
                  = session[s].user.id

\* C21: a logout clears the two cookies and changes nothing on the server:
\* users, roles, role assignments, role permissions and the permission cache
\* are as before, no token is issued, and every access or refresh token
\* handed out before the logout verifies after it as it did before, until
\* its expiry.
C21_LogoutChangesNothing ==
    [][/\ LogsOut
         => /\ users' = users
            /\ roles' = roles
            /\ userRoles' = userRoles
            /\ rolePermissions' = rolePermissions
            /\ roleModule' = roleModule
            /\ session'[Len(session')].cleared = {"accessToken", "refreshToken"}
            /\ session'[Len(session')].cookies = NoCookies
            /\ session'[Len(session')].accessToken = NoToken
            /\ session'[Len(session')].refreshToken = NoToken
            /\ \A s \in DOMAIN session :
                 Sent(s)
                   => /\ safeJwtVerify(session[s].accessToken)'
                           = safeJwtVerify(session[s].accessToken)
                      /\ jwtVerify(session[s].refreshToken, JWT_REFRESH_SECRET)'
                           = jwtVerify(session[s].refreshToken, JWT_REFRESH_SECRET)
       /\ IssuedRefreshTokensVerify']_vars

\* C21 happens: after a login the user logged out, and both tokens of the
\* login still verify
C21_Witness ==
    \E a, b \in DOMAIN session :
        /\ a < b
        /\ session[a].kind = "login"
        /\ Sent(a)
        /\ session[b].kind = "logout"
        /\ session[b].pc = "sent"
        /\ session[b].cleared = {"accessToken", "refreshToken"}
        /\ safeJwtVerify(session[a].accessToken).success
        /\ jwtVerify(session[a].refreshToken, JWT_REFRESH_SECRET).success

\* refresh execution s was turned away at or before the verification of the
\* token it presented
RefreshTokenRejected(s) ==
    /\ session[s].kind = "refresh"
    /\ session[s].pc = "failed"
    /\ session[s].decoded = ""

\* C22: a refresh request whose refresh token is missing, wrongly signed or
\* expired is answered with Unauthorized (401), never with a 5xx status.
C22_RefreshTokenFailureUnauthorized ==
    \A s \in DOMAIN session :
        RefreshTokenRejected(s) => session[s].error.status = UNAUTHORIZED

\* the identity provider answered login l's profile request with a rejection
\* of the bearer token: the login ended without a profile
IdpRejected(l) ==
    /\ login[l].pc = "failed"
    /\ login[l].azureUser = NoProfile

InvalidFederatedToken == AppError("Invalid Azure token", UNAUTHORIZED)

\* C23: a login whose bearer token the identity provider rejects fails with
\* 'Invalid Azure token' (401), creates no user and sets no cookie.
C23_IdpRejectionIsInvalidFederatedToken ==
    \A l \in DOMAIN login :
        IdpRejected(l)
          => /\ login[l].error = InvalidFederatedToken
             /\ ~ login[l].created
             /\ \A s \in DOMAIN session :
                  session[s].via = l
                    => /\ session[s].error = InvalidFederatedToken
                       /\ session[s].cookies = NoCookies

\* protect's verification step is taken for the pending request
ProtectVerifies == req.pc = "protect" /\ req'.pc # "protect"

AuthenticationTokenMissing ==
    AppError("Authentication token missing", UNAUTHORIZED)

\* C25: protect decides on the accessToken cookie whenever the request
\* carries one, whatever the Authorization header holds: an invalid or
\* expired cookie is rejected with Unauthorized even beside a valid Bearer
\* token, and a valid cookie passes beside an invalid one.  The Bearer token
\* decides only when there is no cookie.
C25_CookiePreferredOverHeader ==
    [][ProtectVerifies
         => LET decides == IF req.cookie # NoToken THEN req.cookie
                           ELSE IF req.authorization.scheme = "Bearer"
                                THEN req.authorization.token
                                ELSE NoToken
            IN  IF decides # NoToken /\ safeJwtVerify(decides).success
                THEN /\ req'.pc = "defaultRole"
                     /\ req'.decoded = decides.userId
                     /\ req'.error = NoError
                ELSE /\ req'.pc = "failed"
                     /\ req'.error = AuthenticationTokenMissing]_vars

\* C25 happens: a request with a cookie that does not verify and a Bearer
\* token that does was rejected
C25_Witness ==
    /\ req.pc = "failed"
    /\ req.error = AuthenticationTokenMissing
    /\ req.cookie # NoToken
    /\ ~ safeJwtVerify(req.cookie).success
    /\ req.authorization.scheme = "Bearer"
    /\ req.authorization.token # NoToken
    /\ safeJwtVerify(req.authorization.token).success

\* C26: a federated login that got a profile works under the profile's mail
\* lower-cased when the profile has one, and under its principal name
\* lower-cased when mail is absent, null or empty; the derivation does not
\* fail.
C26_EmailFromMailElsePrincipalName ==
    \A l \in DOMAIN login :
        login[l].azureUser # NoProfile
          => LET azureUser == login[l].azureUser
             IN  /\ login[l].email =
                       IF azureUser.mail \notin {"", Null}
                       THEN ToLocaleLowerCase(azureUser.mail)
                       ELSE ToLocaleLowerCase(azureUser.userPrincipalName)
                 /\ login[l].error.message # "Cannot read properties of null"

(***************************************************************************)
(* Properties of issued tokens at protect (SpecAccess).                    *)
(***************************************************************************)
InvalidSession == AppError("Invalid session, please login again", UNAUTHORIZED)

\* C24: a login or refresh that finds no default user_roles row for its user
\* fails with the internal error (500), issues no token and sets no cookie;
\* protect finding none fails with Unauthorized (401), and the request
\* reaches neither next() nor the handler.
C24_NoDefaultRoleErrorClasses ==
    [][/\ \A s \in DOMAIN session :
            /\ ( /\ session[s].pc = "defaultRole"
                 /\ session'[s].pc # "defaultRole"
                 /\ DefaultRoleIds(session[s].user.id) = {} )
                 => /\ session'[s].pc = "failed"
                    /\ session'[s].error = NoDefaultRoleError
                    /\ session'[s].error.status = INTERNAL_SERVER_ERROR
                    /\ session'[s].accessToken = NoToken
                    /\ session'[s].refreshToken = NoToken
                    /\ session'[s].cookies = NoCookies
            /\ session[s].pc = "failed" => session'[s] = session[s]
       /\ ( /\ req.pc = "defaultRole"
            /\ req'.pc # "defaultRole"
            /\ DefaultRoleRows(req.decoded) = {} )
            => /\ req'.pc = "failed"
               /\ req'.error = InvalidSession
               /\ ~ req'.nextCalled
               /\ ~ req'.user_details.attached
       /\ req.pc = "failed" => ~ req'.handlerRan /\ ~ req'.nextCalled]_vars

\* C24 happens: the default role of a logged-in user was taken away; the
\* refresh made with the login's refresh token failed with the internal
\* error and the request made with a token of the login with Unauthorized
C24_Witness ==
    /\ \E s \in DOMAIN session :
         /\ session[s].kind = "refresh"
         /\ session[s].pc = "failed"
         /\ session[s].error = NoDefaultRoleError
         /\ session[s].user \in users
    /\ req.pc = "failed"
    /\ req.error = InvalidSession
    /\ req.cookie \in IssuedTokens
    /\ ~ req.handlerRan

C27_SnapshotNeverRegresses ==
    [][\A t \in DOMAIN refresh :
         Installs(t)
           => \A u \in DOMAIN refresh :
                refresh[u].pc = "done"
                  => \/ refresh[u].readAt <= refresh[t].readAt
                     \/ refresh[u].results = refresh[t].results]_vars

\* stopIt has returned and init has not been called since: the interval that
\* intervalId names is cleared
Stopped == intervalId # NoTimeout /\ intervalId \notin timers

\* C29: after stopIt, whatever calls of init and stopIt came before, no
\* interval remains scheduled, so that no periodic refresh starts any more.
C29_StopItStopsEveryInterval ==
    Stopped => timers = {}

(***************************************************************************)
(* Properties of concurrent federated logins (SpecLoginConcurrent).        *)
(***************************************************************************)
\* loginUser execution s got from handleAzureLogin a user that was stored
\* when handleAzureLogin looked the email up
FoundExisting(s) ==
    /\ session[s].via \in DOMAIN login
    /\ login[session[s].via].pc = "returned"
    /\ ~ login[session[s].via].created

\* C30: however federated logins for one new email interleave, at most one
\* users row carries the email, and a login that found the row as an
\* existing user finds the user's default role too: it does not fail for a
\* missing default role.
C30_ConcurrentFirstLogins ==
    /\ \A l \in DOMAIN login :
         Cardinality({u \in users : u.email = login[l].email}) <= 1
    /\ \A s \in DOMAIN session :
         FoundExisting(s) => session[s].error # NoDefaultRoleError

====
